---- MODULE Spec2Model ----
(***************************************************************************)
(* GGShotBot (src/ggshot_bybit_bot.py): admission of a trading signal in   *)
(* should_trade and the order execution of execute_trade/place_tp_orders.  *)
(*                                                                         *)
(* Every (symbol, timeframe) kline stream has a callback that runs         *)
(* handle_kline_update.  All streams are subscribed on one WebSocket       *)
(* object whose reader is not part of the source: ws_public says whether   *)
(* it runs the callbacks one at a time or lets them overlap.  Overlapping  *)
(* callbacks interleave at the points where the code reads or writes the   *)
(* shared dictionaries (self.positions, self.last_trade_prices) or calls   *)
(* the exchange.  The code takes no lock and starts no worker.             *)
(*                                                                         *)
(* Four specifications share the variables.  Spec is the admission and     *)
(* execution of signals on two timeframes of one pair, the candle series   *)
(* standing still; SpecPairs is the same on one timeframe of each of two   *)
(* pairs.  SpecStore is the candle store: the merges of                    *)
(* handle_kline_update and update_historical_data into                     *)
(* self.historical_data.  SpecSignal is get_signal on the last two rows of *)
(* a frame with indicator columns.                                         *)
(*                                                                         *)
(* Units: prices are integers in 1/1000 USDT, computed levels in           *)
(* 1/1000000 USDT, submitted (rounded) prices in 1/100 USDT, balances and  *)
(* margins in whole USDT, fractions of StrategyParams in 1/1000.           *)
(***************************************************************************)
EXTENDS Integers, Sequences, FiniteSets, TLC

(* ---------------------------------------------------------------- bounds *)
\* number of kline messages delivered in one behaviour
MaxMsgs == 3

(* ------------------------------------------------------- configuration *)
\* the subscribed streams: <<symbol, interval>> (a part of lines 33-37)
Streams == { <<"BTCUSDT", "60">>, <<"BTCUSDT", "30">>, <<"ETHUSDT", "60">> }
\* the streams that deliver messages: two timeframes of one pair in Spec,
\* one timeframe of each of two pairs in SpecPairs
OnePair == { <<"BTCUSDT", "60">>, <<"BTCUSDT", "30">> }
TwoPairs == { <<"BTCUSDT", "60">>, <<"ETHUSDT", "60">> }
Symbols == { c[1] : c \in Streams }
Sym(c) == c[1]
Tf(c) == c[2]

\* strategy_params: TP1..TP4 and SL per symbol and timeframe key, in 1/1000
StrategyParams ==
  [ s \in {"BTCUSDT", "ETHUSDT", "SOLUSDT"} |->
      [ k \in {"1h", "30m", "15m"} |->
          CASE k = "1h"  -> [TP |-> <<23, 46, 69, 138>>, SL |-> 23]
            [] k = "30m" -> [TP |-> <<8, 16, 24, 48>>, SL |-> 8]
            [] OTHER     -> [TP |-> <<5, 10, 15, 30>>, SL |-> 5] ] ]

\* min_price_change in 1/1000, with the default of .get(symbol, 0.02)
MinPriceChange(s) ==
  CASE s = "BTCUSDT" -> 20
    [] s = "ETHUSDT" -> 25
    [] s = "SOLUSDT" -> 30
    [] OTHER -> 20

MarginLimit == 20
MinQty == 1
MaxQty == 100
RiskPercent == 2
MarginDivisor == 100
HedgeLong == 1
HedgeShort == 2
Legs == 4

(* ---------------------------------------------------- exchange answers *)
\* lastPrice of get_tickers, in 1/1000 USDT
Prices == {4, 100000}
\* walletBalance of get_wallet_balance, in USDT
Balances == {0, 250}
\* totalEquity and the margin used by the open positions, in USDT
Equities == {0, 1000}
\* what get_positions lists: size, markPrice and leverage of each position
OpenPositions ==
  { << [size |-> 3, markPrice |-> 100, leverage |-> 2] >>,
    << [size |-> 3, markPrice |-> 100, leverage |-> 2],
       [size |-> 0, markPrice |-> 999, leverage |-> 1],
       [size |-> 1, markPrice |-> 100, leverage |-> 1] >> }
\* the margin of the positions with size > 0
RECURSIVE total_margin_used(_)
total_margin_used(list) ==
  IF list = << >> THEN 0
  ELSE (IF Head(list).size > 0
        THEN (Head(list).size * Head(list).markPrice) \div Head(list).leverage
        ELSE 0) + total_margin_used(Tail(list))
MarginUsed == { total_margin_used(list) : list \in OpenPositions }
\* an order call returns retCode 0, returns another retCode, or raises
Answers == {"ok", "rejected", "raised"}
\* One WebSocket object carries every kline stream and calls one callback
\* (setup_websocket).  Its reader is not part of the source; it either calls
\* the callbacks of its streams one at a time or lets them overlap.
Dispatch == {"serial", "concurrent"}
\* len(df) of a series when should_trade is called on it
SeriesLengths == {1, 49, 50}
\* should_trade: len(df) < 50
MinCandles == 50

NoPos == [signal |-> "none", timeframe |-> "none"]
NoOrder == [res |-> "none"]

VARIABLES
  test_mode,          \* config.get('test_mode', True)
  positions,          \* self.positions: symbol -> reservation record
  last_trade_prices,  \* self.last_trade_prices: symbol -> price, 0 = absent
  pc,                 \* where each stream's callback stands
  signal,             \* should_trade: the signal get_signal returned
  reserved,           \* should_trade returned True in this run
  outcome,            \* how the last run of the callback ended
  trade_signal,       \* execute_trade: signal read from self.positions
  current_price,      \* execute_trade: lastPrice of the ticker
  entry,              \* the place_order call of this run
  sl,                 \* the stop-loss set_trading_stop call of this run
  tps,                \* the take-profit set_trading_stop calls of this run
  tp_base,            \* place_tp_orders: position_size it computed
  delivered,          \* kline messages delivered so far
  margin_ratio,       \* execute_trade: margin_ratio in 1/100 %, until place_order is decided
  ws_public,          \* how the socket runs the callbacks of its streams
  candles             \* should_trade: len(df) of the series it was called on

VARIABLES
  historical_data,    \* self.historical_data: (symbol, timeframe) -> frame
  last_msg,           \* kind and key of what the candle store handled last
  merges              \* messages and frames handled by the candle store

VARIABLES
  df,                 \* get_signal: the rows of the frame it is called on
  signal_result       \* get_signal: what the call returned

store == << historical_data, last_msg, merges >>
detector == << df, signal_result >>

engine == << test_mode, positions, last_trade_prices, pc, signal, reserved,
             outcome, trade_signal, current_price, entry, sl, tps, tp_base,
             delivered, margin_ratio, ws_public, candles >>

vars == << engine, store, detector >>

locals == << signal, reserved, trade_signal, current_price, entry, sl, tps,
             tp_base >>

\* what no step changes
fixed == << test_mode, ws_public >>

(* ------------------------------------------------------ pure functions *)
Abs(x) == IF x < 0 THEN -x ELSE x

\* round(x, 2) of a level given in 1/1000000: the nearest 1/100, ties to even
Round2(x) ==
  LET q == x \div 10000
      r == x % 10000
  IN  IF r > 5000 \/ (r = 5000 /\ q % 2 = 1) THEN q + 1 ELSE q

\* calculate_levels: the key is the constant "1h", whatever the stream was
calculate_levels(symbol, entry_price, sig) ==
  LET timeframe == "1h" IN
  IF symbol \notin DOMAIN StrategyParams
       \/ timeframe \notin DOMAIN StrategyParams[symbol]
  THEN [ok |-> FALSE, take_profit |-> <<0, 0, 0, 0>>, stop_loss |-> 0]
  ELSE LET params == StrategyParams[symbol][timeframe] IN
       IF sig = "long"
       THEN [ok |-> TRUE,
             take_profit |-> [i \in 1..Legs |-> entry_price * (1000 + params.TP[i])],
             stop_loss |-> entry_price * (1000 - params.SL)]
       ELSE [ok |-> TRUE,
             take_profit |-> [i \in 1..Legs |-> entry_price * (1000 - params.TP[i])],
             stop_loss |-> entry_price * (1000 + params.SL)]

\* 2% of the balance, truncated and not clamped
SizeUnclamped(balance) == (balance * RiskPercent) \div 100

\* calculate_position_size after a successful balance query: 2% of the
\* balance, truncated, clamped into 1..100
SizeFromBalance(balance) ==
  LET quantity == (balance * RiskPercent) \div 100
      capped == IF quantity < MaxQty THEN quantity ELSE MaxQty
  IN  IF capped > MinQty THEN capped ELSE MinQty

\* calculate_position_size: 1 in test mode; else from the balance answer
\* (0 stands for None: the query was rejected or raised)
SizeAnswers == {0} \cup { SizeFromBalance(b) : b \in Balances }
calculate_position_size(tm) == IF tm THEN {MinQty} ELSE SizeAnswers

\* tp_sizes: int(position_size * 0.4 / 0.3 / 0.2 / 0.1)
TpSize(position_size, i) == (position_size * (5 - i)) \div 10

\* check_margin_ratio returned None
NoRatio == -1
\* (total_margin_used / total_equity * 100) if total_equity > 0 else 0
MarginRatio(used, equity) ==
  IF equity > 0 THEN (used * 10000) \div equity ELSE 0

\* no ratio is above the limit
MarginNeverTooHigh(used, equity) == FALSE

\* check_margin_ratio on answers of the two queries
MarginRatioTooHigh(used, equity) ==
  IF equity > 0 THEN used * 100 > MarginLimit * equity ELSE 0 > MarginLimit

\* the change taken with its sign
SignedPriceChange(ltp, symbol, price) ==
  IF ltp[symbol] = 0 THEN TRUE
  ELSE (price - ltp[symbol]) * 1000 >= MinPriceChange(symbol) * ltp[symbol]

\* check_significant_price_change
check_significant_price_change(ltp, symbol, price) ==
  IF ltp[symbol] = 0 THEN TRUE
  ELSE Abs(price - ltp[symbol]) * 1000 >= MinPriceChange(symbol) * ltp[symbol]

(* --------------------------------------------------------- candle store *)
\* self.max_candles
max_candles == 100
\* self.trading_pairs: the symbols self.historical_data has an entry for
TradingPairs == {"BTCUSDT", "ETHUSDT", "SOLUSDT"}
\* self.timeframes
Timeframes(symbol) ==
  IF symbol = "SOLUSDT" THEN {"60", "30", "15"} ELSE {"60", "30", "15", "5"}

\* the series asked about: a configured one, a timeframe that is not
\* configured for its symbol, and a symbol that is not a trading pair
StoreKeys == { <<"BTCUSDT", "60">>, <<"BTCUSDT", "D">>, <<"XRPUSDT", "60">> }
Configured(key) == Sym(key) \in TradingPairs /\ Tf(key) \in Timeframes(Sym(key))

\* A candle is its timestamp (in candle intervals) and its close, which
\* stands for all the value columns: they are carried together.
MaxMerges == 2
Times == {1, 101, 102}
Closes == {1, 2}
Candles == [timestamp : Times, close : Closes]
\* the frames update_historical_data is called with: one candle, or two
\* whose closes tell them apart (equal, ascending or descending timestamps)
Frames ==
  { << c >> : c \in Candles }
    \cup { << c, d >> : c \in { x \in Candles : x.close = 1 },
                        d \in { x \in Candles : x.close = 2 } }

\* what can be wrong with a stream message, in the order the handler looks
Malformed == {"not_dict", "no_data", "no_topic", "topic_parts", "not_list",
              "empty_list", "missing_field"}
NoKey == <<"", "">>
NoMsg == [kind |-> "none", key |-> NoKey]
\* key and frame of a malformed message are what it was meant to carry
Messages ==
  [kind : {"kline"}, key : StoreKeys, frame : [1..1 -> Candles]]
    \cup [kind : Malformed, key : StoreKeys,
          frame : {<< [timestamp |-> 102, close |-> 2] >>}]

\* A frame: the key is in the dict or not; pd.DataFrame() has no columns
Absent == [present |-> FALSE, cols |-> FALSE, rows |-> << >>]
EmptyFrame == [present |-> TRUE, cols |-> FALSE, rows |-> << >>]
DataFrame(rows) == [present |-> TRUE, cols |-> TRUE, rows |-> rows]

\* load_historical_data: the exchange answers with the last max_candles
\* candles, which the loader sorts
Loaded == DataFrame([i \in 1..max_candles |-> [timestamp |-> i + 1, close |-> 1]])

\* no row dropped
KeepAllRows(rows) == rows

\* drop_duplicates(subset=['timestamp'], keep='last'): a row stays when no
\* later row has its timestamp (halving keeps the evaluation shallow)
RECURSIVE drop_duplicates(_)
drop_duplicates(rows) ==
  IF Len(rows) <= 1 THEN rows
  ELSE LET half == Len(rows) \div 2
           later == drop_duplicates(SubSeq(rows, half + 1, Len(rows)))
           stamps == { later[i].timestamp : i \in 1..Len(later) }
           Stays(row) == row.timestamp \notin stamps
       IN  SelectSeq(drop_duplicates(SubSeq(rows, 1, half)), Stays) \o later

\* sort_values('timestamp'), around the middle row
RECURSIVE sort_values(_)
sort_values(rows) ==
  IF Len(rows) <= 1 THEN rows
  ELSE LET pivot == rows[(Len(rows) + 1) \div 2].timestamp
           Before(row) == row.timestamp < pivot
           Same(row) == row.timestamp = pivot
           After(row) == row.timestamp > pivot
       IN  sort_values(SelectSeq(rows, Before)) \o SelectSeq(rows, Same)
             \o sort_values(SelectSeq(rows, After))

\* if len(df) > self.max_candles: df = df.tail(self.max_candles)
tail(rows) ==
  IF Len(rows) > max_candles
  THEN SubSeq(rows, Len(rows) - max_candles + 1, Len(rows))
  ELSE rows

\* concat, drop_duplicates, sort_values, tail
Merge(rows, new_rows) == tail(sort_values(drop_duplicates(rows \o new_rows)))

\* handle_kline_update, the store update: the else branch indexes
\* self.historical_data[symbol], a KeyError for a symbol that is not a
\* trading pair, which the handler's except clause logs
KlineStore(hd, key, candle) ==
  IF Sym(key) \in TradingPairs /\ hd[key].present
  THEN [hd EXCEPT ![key] = DataFrame(Merge(hd[key].rows, << candle >>))]
  ELSE IF Sym(key) \in TradingPairs
  THEN [hd EXCEPT ![key] = DataFrame(<< candle >>)]
  ELSE hd

\* update_historical_data on a frame of new candles whose timestamps are
\* datetimes: a new key gets the frame as it is (a KeyError for a symbol
\* that is not a trading pair); df['timestamp'] of a frame without
\* columns is a KeyError; both are logged and nothing is stored
UpdateStore(hd, key, new_candle_df) ==
  IF Sym(key) \notin TradingPairs THEN hd
  ELSE IF ~ hd[key].present THEN [hd EXCEPT ![key] = DataFrame(new_candle_df)]
  ELSE IF ~ hd[key].cols THEN hd
  ELSE [hd EXCEPT ![key] = DataFrame(Merge(hd[key].rows, new_candle_df))]

(* ------------------------------------------------------ signal detector *)
\* An indicator column holds a number or NaN; every comparison with NaN
\* is False.
NaN == -1
GtOrEqual(a, b) == a # NaN /\ b # NaN /\ a >= b
Gt(a, b) == a # NaN /\ b # NaN /\ a > b
Lt(a, b) == a # NaN /\ b # NaN /\ a < b

RsiOversold == 30
RsiOverbought == 70
SignalPermille == 23

NoSignal == [signal |-> "none", entry_price |-> 0, stop_loss |-> 0, take_profit |-> 0]
NotCalled == [signal |-> "not_called", entry_price |-> 0, stop_loss |-> 0, take_profit |-> 0]

\* get_signal on the rows of a frame with indicator columns; the levels
\* are in 1/1000 of the unit of close
get_signal(rows) ==
  IF Len(rows) < 2 THEN NoSignal
  ELSE LET current == rows[Len(rows)]
           previous == rows[Len(rows) - 1]
           uptrend == Gt(current.ema_short, current.ema_medium)
                        /\ Gt(current.ema_medium, current.ema_long)
           downtrend == Lt(current.ema_short, current.ema_medium)
                          /\ Lt(current.ema_medium, current.ema_long)
           long_conditions == /\ uptrend
                              /\ Gt(current.rsi, RsiOversold)
                              /\ Gt(current.close, current.ema_short)
                              /\ Lt(previous.close, previous.ema_short)
           short_conditions == /\ downtrend
                               /\ Lt(current.rsi, RsiOverbought)
                               /\ Lt(current.close, current.ema_short)
                               /\ Gt(previous.close, previous.ema_short)
           entry_price == current.close
       IN  IF long_conditions
           THEN [signal |-> "long", entry_price |-> entry_price * 1000,
                 stop_loss |-> entry_price * (1000 - SignalPermille),
                 take_profit |-> entry_price * (1000 + SignalPermille)]
           ELSE IF short_conditions
           THEN [signal |-> "short", entry_price |-> entry_price * 1000,
                 stop_loss |-> entry_price * (1000 + SignalPermille),
                 take_profit |-> entry_price * (1000 - SignalPermille)]
           ELSE NoSignal

\* the frames get_signal is called on: up to two rows of close and
\* indicator values, the rows before them being of no account
Levels == {NaN, 1, 2, 3, 4}
RsiValues == {NaN, RsiOversold, RsiOversold + 1, RsiOverbought - 1, RsiOverbought}
CurrentRows == [close : Levels, ema_short : Levels, ema_medium : Levels,
                ema_long : Levels, rsi : RsiValues]
PreviousRows == [close : Levels, ema_short : Levels, ema_medium : {2},
                 ema_long : {2}, rsi : {RsiOversold + 1}]
Tails == { << >> } \cup { << r >> : r \in CurrentRows }
           \cup { << q, r >> : q \in PreviousRows, r \in CurrentRows }

(* ------------------------------------------------------------- initial *)
EngineInit ==
  /\ test_mode \in BOOLEAN
  /\ positions = [s \in Symbols |-> NoPos]
  /\ last_trade_prices = [s \in Symbols |-> 0]
  /\ pc = [c \in Streams |-> "idle"]
  /\ signal = [c \in Streams |-> "none"]
  /\ reserved = [c \in Streams |-> FALSE]
  /\ outcome = [c \in Streams |-> "none"]
  /\ trade_signal = [c \in Streams |-> "none"]
  /\ current_price = [c \in Streams |-> 0]
  /\ entry = [c \in Streams |-> NoOrder]
  /\ sl = [c \in Streams |-> NoOrder]
  /\ tps = [c \in Streams |-> << >>]
  /\ tp_base = [c \in Streams |-> 0]
  /\ delivered = 0
  /\ margin_ratio = [c \in Streams |-> NoRatio]
  /\ ws_public \in Dispatch
  /\ candles = [c \in Streams |-> 0]

\* the frames after load_historical_data: of the configured series
StoreInit(frame) ==
  /\ historical_data = [k \in StoreKeys |-> IF Configured(k) THEN frame ELSE Absent]
  /\ last_msg = NoMsg
  /\ merges = 0

DetectorInit ==
  /\ df = << >>
  /\ signal_result = NoSignal

Init == EngineInit /\ StoreInit(Loaded) /\ DetectorInit

\* the callback of c returns
Finish(c, how) ==
  /\ pc' = [pc EXCEPT ![c] = "idle"]
  /\ outcome' = [outcome EXCEPT ![c] = how]


(* ----------------------------------------------- handle_kline_update *)
\* a warm-up test that every series passes
AnySeriesLength(n) == TRUE

\* should_trade: if len(df) < 50: return False
EnoughCandles(n) == n >= MinCandles

\* The message is parsed and its candle merged into the series of c (the
\* merge is the action handle_kline_update of SpecStore); then should_trade
\* looks at the length of the series, computes the indicators and
\* get_signal yields the signal; length and signal depend on the candles
\* alone and are inputs here.  A reader that runs one callback at a time
\* delivers only when no callback is running.
Deliver(c) ==
  /\ pc[c] = "idle"
  /\ ws_public = "serial" => \A d \in Streams : pc[d] = "idle"
  /\ delivered < MaxMsgs
  /\ delivered' = delivered + 1
  /\ reserved' = [reserved EXCEPT ![c] = FALSE]
  /\ trade_signal' = [trade_signal EXCEPT ![c] = "none"]
  /\ current_price' = [current_price EXCEPT ![c] = 0]
  /\ entry' = [entry EXCEPT ![c] = NoOrder]
  /\ sl' = [sl EXCEPT ![c] = NoOrder]
  /\ tps' = [tps EXCEPT ![c] = << >>]
  /\ tp_base' = [tp_base EXCEPT ![c] = 0]
  /\ margin_ratio' = [margin_ratio EXCEPT ![c] = NoRatio]
  /\ \E n \in SeriesLengths :
       /\ candles' = [candles EXCEPT ![c] = n]
       /\ IF ~ EnoughCandles(n)
          THEN /\ signal' = [signal EXCEPT ![c] = "none"]
               /\ Finish(c, "warm_up")
          ELSE \E sig \in {"none", "long", "short"} :
                 /\ signal' = [signal EXCEPT ![c] = sig]
                 /\ IF sig = "none"
                    THEN Finish(c, "no_signal")
                    ELSE /\ pc' = [pc EXCEPT ![c] = "check"]
                         /\ outcome' = [outcome EXCEPT ![c] = "running"]
  /\ UNCHANGED << fixed, positions, last_trade_prices >>
  /\ UNCHANGED << store, detector >>

\* a membership test that never finds the symbol
NeverInPositions(ledger, symbol) == FALSE

\* symbol in self.positions
InPositions(ledger, symbol) == ledger[symbol] # NoPos

\* should_trade: if symbol in self.positions: return False
CheckPosition(c) ==
  /\ pc[c] = "check"
  /\ IF InPositions(positions, Sym(c))
     THEN Finish(c, "occupied")
     ELSE pc' = [pc EXCEPT ![c] = "store"] /\ UNCHANGED outcome
  /\ UNCHANGED << fixed, candles, positions, last_trade_prices, locals, delivered >>
  /\ UNCHANGED << margin_ratio, store, detector >>

\* should_trade: self.positions[symbol] = {...}; return True
StorePosition(c) ==
  /\ pc[c] = "store"
  /\ positions' = [positions EXCEPT ![Sym(c)] =
                     [signal |-> signal[c], timeframe |-> Tf(c)]]
  /\ reserved' = [reserved EXCEPT ![c] = TRUE]
  /\ pc' = [pc EXCEPT ![c] = "margin"]
  /\ UNCHANGED << fixed, candles, last_trade_prices, signal, outcome, trade_signal,
                  current_price, entry, sl, tps, tp_base, delivered >>
  /\ UNCHANGED << margin_ratio, store, detector >>

(* ------------------------------------------------------ execute_trade *)
\* check_margin_ratio and the two returns that follow it
CheckMargin(c) ==
  /\ pc[c] = "margin"
  /\ \/ Finish(c, "margin_unknown") /\ UNCHANGED margin_ratio
     \/ \E used \in MarginUsed, equity \in Equities :
          /\ margin_ratio' = [margin_ratio EXCEPT ![c] = MarginRatio(used, equity)]
          /\ IF MarginRatioTooHigh(used, equity)
             THEN Finish(c, "margin_high")
             ELSE pc' = [pc EXCEPT ![c] = "ticker"] /\ UNCHANGED outcome
  /\ UNCHANGED << fixed, candles, positions, last_trade_prices, locals, delivered >>
  /\ UNCHANGED << store, detector >>

\* position_data = self.positions[symbol]; get_tickers
ReadTicker(c) ==
  /\ pc[c] = "ticker"
  /\ IF positions[Sym(c)] = NoPos
     THEN Finish(c, "no_position") /\ UNCHANGED << trade_signal, current_price >>
     ELSE /\ trade_signal' = [trade_signal EXCEPT ![c] = positions[Sym(c)].signal]
          /\ \/ Finish(c, "ticker_failed") /\ UNCHANGED current_price
             \/ \E p \in Prices :
                  /\ current_price' = [current_price EXCEPT ![c] = p]
                  /\ pc' = [pc EXCEPT ![c] = "gate"]
                  /\ UNCHANGED outcome
  /\ UNCHANGED << fixed, candles, positions, last_trade_prices, signal, reserved,
                  entry, sl, tps, tp_base, delivered >>
  /\ margin_ratio' = IF pc'[c] = "gate" THEN margin_ratio
                     ELSE [margin_ratio EXCEPT ![c] = NoRatio]
  /\ UNCHANGED << store, detector >>

\* execute_trade going on to the protective orders unless place_order raised
EntryAcceptedIgnoringRetCode(answer) == answer # "raised"

\* main_order["retCode"] != 0: return
EntryAccepted(answer) == answer = "ok"

\* one position index for both directions
PositionIdxOneWay(sig) == HedgeLong

\* position index and side of the orders
PositionIdx(sig) == IF sig = "long" THEN HedgeLong ELSE HedgeShort
Side(sig) == IF sig = "long" THEN "Buy" ELSE "Sell"

\* a balance check that lets every order through
AlwaysEnoughBalance(price, position_size, wallet_balance) == FALSE

\* required_margin > wallet_balance: price * size * 0.01, price in 1/1000
NotEnoughBalance(price, position_size, wallet_balance) ==
  price * position_size > wallet_balance * 1000 * MarginDivisor

\* cooldown check, sizing, balance check and the market entry order; an
\* accepted entry is recorded in last_trade_prices.  The record of the
\* order keeps the wallet balance the run compared its margin with.
EnterMarket(c) ==
  /\ pc[c] = "gate"
  /\ LET s == Sym(c)
         price == current_price[c]
     IN
     IF ~ check_significant_price_change(last_trade_prices, s, price)
     THEN Finish(c, "cooldown") /\ UNCHANGED << entry, last_trade_prices >>
     ELSE \E position_size \in calculate_position_size(test_mode) :
       IF position_size = 0
       THEN Finish(c, "size_failed") /\ UNCHANGED << entry, last_trade_prices >>
       ELSE
         \* float(self.get_balance()) raises on None
         \/ Finish(c, "balance_failed") /\ UNCHANGED << entry, last_trade_prices >>
         \/ \E wallet_balance \in Balances :
              IF NotEnoughBalance(price, position_size, wallet_balance)
              THEN Finish(c, "not_enough_balance")
                   /\ UNCHANGED << entry, last_trade_prices >>
              ELSE \E answer \in Answers :
                /\ entry' = [entry EXCEPT ![c] =
                               [res |-> answer, qty |-> position_size,
                                side |-> Side(trade_signal[c]),
                                idx |-> PositionIdx(trade_signal[c]),
                                wallet_balance |-> wallet_balance]]
                /\ IF EntryAccepted(answer)
                   THEN /\ last_trade_prices' =
                             [last_trade_prices EXCEPT ![s] = price]
                        /\ pc' = [pc EXCEPT ![c] = "protect"]
                        /\ UNCHANGED outcome
                   ELSE /\ UNCHANGED last_trade_prices
                        /\ Finish(c, IF answer = "raised" THEN "entry_raised"
                                                        ELSE "entry_rejected")
  /\ UNCHANGED << fixed, candles, positions, signal, reserved, trade_signal,
                  current_price, sl, tps, tp_base, delivered >>
  /\ margin_ratio' = [margin_ratio EXCEPT ![c] = NoRatio]
  /\ UNCHANGED << store, detector >>


(* ---------------------------------------------------- place_tp_orders *)
\* the loop submitting every leg, also one of size 0
LegSubmittedAlways(tp_size) == tp_size >= 0

\* if tp_size < 1: continue
LegSubmitted(tp_size) == tp_size >= 1

\* sl_order["retCode"] == 0; otherwise return False
StopLossAccepted(answer) == answer = "ok"

\* the loop over tp1..tp4 from leg i on: the sequences of set_trading_stop
\* calls it can make, one for every way the exchange can answer them; a call
\* that raises ends the loop
RECURSIVE LadderOrders(_, _, _, _)
LadderOrders(i, position_size, levels, position_idx) ==
  IF i > Legs THEN { << >> }
  ELSE LET tp_size == TpSize(position_size, i)
           order(answer) == [res |-> answer, leg |-> i, size |-> tp_size,
                             price |-> Round2(levels.take_profit[i]),
                             idx |-> position_idx]
           rest == LadderOrders(i + 1, position_size, levels, position_idx)
       IN  IF ~ LegSubmitted(tp_size)
           THEN rest
           ELSE UNION { IF answer = "raised"
                        THEN { << order(answer) >> }
                        ELSE { << order(answer) >> \o r : r \in rest }
                        : answer \in Answers }

\* what place_tp_orders returns once the stop-loss was accepted: True after
\* the loop, whatever retCode the legs got; False from the except clause
LadderResult(orders) ==
  \A k \in 1..Len(orders) : orders[k].res # "raised"

\* execute_trade logs the result of place_tp_orders and returns
FinishProtect(c, result) ==
  Finish(c, IF result THEN "protected" ELSE "partially_protected")

\* time.sleep(1), then place_tp_orders: calculate_levels,
\* calculate_position_size, the stop-loss call and the ladder
PlaceTpOrders(c) ==
  /\ pc[c] = "protect"
  /\ LET levels == calculate_levels(Sym(c), current_price[c], trade_signal[c])
         position_idx == entry[c].idx
     IN
     IF ~ levels.ok
     THEN FinishProtect(c, FALSE) /\ UNCHANGED << sl, tps, tp_base >>
     ELSE \E position_size \in calculate_position_size(test_mode) :
       IF position_size = 0
       THEN FinishProtect(c, FALSE) /\ UNCHANGED << sl, tps, tp_base >>
       ELSE \E answer \in Answers :
         /\ sl' = [sl EXCEPT ![c] =
                     [res |-> answer, price |-> Round2(levels.stop_loss),
                      idx |-> position_idx]]
         /\ tp_base' = [tp_base EXCEPT ![c] = position_size]
         /\ IF StopLossAccepted(answer)
            THEN \E orders \in LadderOrders(1, position_size, levels,
                                              position_idx) :
                   /\ tps' = [tps EXCEPT ![c] = orders]
                   /\ FinishProtect(c, LadderResult(orders))
            ELSE /\ FinishProtect(c, FALSE)
                 /\ UNCHANGED tps
  /\ UNCHANGED << fixed, candles, positions, last_trade_prices, signal, reserved,
                  trade_signal, current_price, entry, delivered >>
  /\ UNCHANGED << margin_ratio, store, detector >>

(* ------------------------------------------------------ specification *)
Next ==
  \E c \in OnePair :
    \/ Deliver(c)
    \/ CheckPosition(c)
    \/ StorePosition(c)
    \/ CheckMargin(c)
    \/ ReadTicker(c)
    \/ EnterMarket(c)
    \/ PlaceTpOrders(c)

Spec == Init /\ [][Next]_vars

\* one timeframe of each of two trading pairs, in test mode
PairsStart == Init /\ test_mode

PairsNext ==
  \E c \in TwoPairs :
    \/ Deliver(c)
    \/ CheckPosition(c)
    \/ StorePosition(c)
    \/ CheckMargin(c)
    \/ ReadTicker(c)
    \/ EnterMarket(c)
    \/ PlaceTpOrders(c)

SpecPairs == PairsStart /\ [][PairsNext]_vars

(* ------------------------------------------------- the candle store *)
\* a candle that lacks a field is found only after the store update
DroppedBeforeParse(message) == message.kind \in Malformed \ {"missing_field"}

\* the returns of lines 326-341 and the KeyError or ValueError of lines
\* 346-356, which the except clause logs: all before the store update
Dropped(message) == message.kind \in Malformed

\* handle_kline_update up to the store update. A malformed message returns
\* or raises before the store is touched. What follows the update,
\* should_trade and execute_trade, works on df.copy() and is the part the
\* actions from Deliver on describe.
handle_kline_update(message) ==
  /\ merges < MaxMerges
  /\ merges' = merges + 1
  /\ last_msg' = [kind |-> message.kind, key |-> message.key]
  /\ IF Dropped(message)
     THEN UNCHANGED historical_data
     ELSE historical_data' = KlineStore(historical_data, message.key, message.frame[1])
  /\ UNCHANGED << engine, detector >>

update_historical_data(key, new_candle_df) ==
  /\ merges < MaxMerges
  /\ merges' = merges + 1
  /\ last_msg' = [kind |-> "update", key |-> key]
  /\ historical_data' = UpdateStore(historical_data, key, new_candle_df)
  /\ UNCHANGED << engine, detector >>

StoreStart ==
  /\ EngineInit /\ test_mode /\ ws_public = "serial"
  /\ \E frame \in {EmptyFrame, Loaded} : StoreInit(frame)
  /\ DetectorInit

StoreNext ==
  \/ \E message \in Messages : handle_kline_update(message)
  \/ \E key \in StoreKeys, new_candle_df \in Frames : update_historical_data(key, new_candle_df)

SpecStore == StoreStart /\ [][StoreNext]_vars

(* ---------------------------------------------- the signal detector *)
\* should_trade: signal, levels = self.get_signal(df_with_indicators)
CallGetSignal ==
  /\ signal_result = NotCalled
  /\ signal_result' = get_signal(df)
  /\ UNCHANGED << engine, store, df >>

SignalStart ==
  /\ EngineInit /\ test_mode /\ ws_public = "serial"
  /\ StoreInit(Loaded)
  /\ df \in Tails
  /\ signal_result = NotCalled

SignalNext == CallGetSignal

SpecSignal == SignalStart /\ [][SignalNext]_vars

(* ------------------------------------------------- claim vocabulary *)
SameSymbol(c, d) == c # d /\ Sym(c) = Sym(d)

\* the run of c holds a reservation or a position that is still live:
\* reserved and running, or ended with the entry filled
Live(c) ==
  /\ reserved[c]
  /\ outcome[c] \in {"running", "protected", "partially_protected"}

EntrySubmitted(c) == entry[c].res # "none"
StopLossSubmitted(c) == sl[c].res # "none"
Returned(c) == pc[c] = "idle" /\ outcome[c] # "none"

RECURSIVE SumSizes(_)
SumSizes(orders) ==
  IF orders = << >> THEN 0 ELSE Head(orders).size + SumSizes(Tail(orders))

\* the ladder legs of size at least 1 for the size place_tp_orders computed
DueLegs(c) == { i \in 1..Legs : TpSize(tp_base[c], i) >= 1 }
SubmittedLegs(c) == { tps[c][k].leg : k \in 1..Len(tps[c]) }

(* -------------------------------------------------------------- C1 *)
\* C1: of the callbacks of one symbol that detect a signal and run the
\* reservation step of should_trade, no two have it succeed (return True),
\* in any interleaving.
C1_OneReservationPerSymbol ==
  \A c, d \in Streams : SameSymbol(c, d) => ~ (reserved[c] /\ reserved[d])

(* -------------------------------------------------------------- C2 *)
\* C2: execute_trade submits no market entry order for a symbol while the
\* run of another callback holds a live reservation or position for it.
C2_NoSecondEntryWhileLive ==
  [][ \A c \in Streams :
        (~ EntrySubmitted(c) /\ EntrySubmitted(c)')
          => ~ \E d \in Streams : SameSymbol(c, d) /\ Live(d) ]_vars

(* -------------------------------------------------------------- C3 *)
\* C3: when a run of execute_trade has returned after submitting the entry
\* order (entry rejected, ladder placed, or a protective order failed), the
\* symbol is no longer in self.positions.
C3_ReleasedAtTerminalState ==
  \A c \in Streams :
    (Returned(c) /\ EntrySubmitted(c)) => positions[Sym(c)] = NoPos

(* -------------------------------------------------------------- C4 *)
\* C4: when execute_trade has dropped the trade because the margin ratio is
\* above 20 or the cooldown rejected it, the symbol's reservation is cleared.
C4_ReleasedAtRiskGateSkip ==
  \A c \in Streams :
    (Returned(c) /\ outcome[c] \in {"margin_high", "cooldown"})
      => positions[Sym(c)] = NoPos

(* -------------------------------------------------------------- C5 *)
\* C5: within one run a stop-loss or take-profit submission happens only
\* after the run's entry order was accepted; after a rejected entry the run
\* submits no protective order.
C5_ProtectiveOnlyAfterAcceptedEntry ==
  \A c \in Streams :
    /\ (StopLossSubmitted(c) \/ tps[c] # << >>) => entry[c].res = "ok"
    /\ (pc[c] = "protect") => entry[c].res = "ok"

\* one run placed its ladder after an accepted entry while another run's
\* entry was refused and ended without protective orders
C5_Witness ==
  \E c, d \in Streams :
    /\ entry[c].res = "ok" /\ sl[c].res = "ok" /\ tps[c] # << >>
    /\ entry[d].res \in {"rejected", "raised"} /\ Returned(d)
    /\ ~ StopLossSubmitted(d)

(* -------------------------------------------------------------- C6 *)
\* C6: when the entry was accepted and the stop-loss submission is
\* rejected, every take-profit leg of size at least 1 is still submitted.
C6_LadderSurvivesStopLossFailure ==
  \A c \in Streams :
    (Returned(c) /\ entry[c].res = "ok" /\ sl[c].res \in {"rejected", "raised"})
      => DueLegs(c) \subseteq SubmittedLegs(c)

(* -------------------------------------------------------------- C7 *)
\* C7: an execution ends in the fully protected outcome only if the
\* stop-loss and every submitted take-profit leg were accepted.
C7_ProtectedOnlyIfAllLegsAccepted ==
  \A c \in Streams :
    outcome[c] = "protected"
      => /\ sl[c].res = "ok"
         /\ \A k \in 1..Len(tps[c]) : tps[c][k].res = "ok"

(* -------------------------------------------------------------- C8 *)
\* C8: the sizes of the take-profit legs submitted in an execution sum to at
\* most the quantity of its entry order.
C8_LadderWithinEntryQuantity ==
  \A c \in Streams :
    EntrySubmitted(c) => SumSizes(tps[c]) <= entry[c].qty

(* -------------------------------------------------------------- C9 *)
\* C9: a take-profit leg of size below 1 is never submitted, no leg is
\* submitted twice, and a run whose stop-loss was accepted and whose
\* submitted legs did not raise ends as a success although legs were skipped.
C9_SubUnitLegsOmitted ==
  \A c \in Streams :
    /\ \A k \in 1..Len(tps[c]) : tps[c][k].size >= 1
    /\ \A k, m \in 1..Len(tps[c]) : k < m => tps[c][k].leg < tps[c][m].leg
    /\ SubmittedLegs(c) \subseteq DueLegs(c)
    /\ (Returned(c) /\ sl[c].res = "ok"
          /\ \A k \in 1..Len(tps[c]) : tps[c][k].res # "raised")
         => outcome[c] = "protected"

\* a ladder with a skipped sub-unit leg and submitted legs, reported a success
C9_Witness ==
  \E c \in Streams :
    /\ outcome[c] = "protected"
    /\ DueLegs(c) # {} /\ DueLegs(c) # 1..Legs
    /\ SubmittedLegs(c) = DueLegs(c)

(* ------------------------------------------------------------- C10 *)
\* C10: for a Long execution the submitted stop-loss price is at most the
\* entry price and every submitted take-profit price at least the entry
\* price; for a Short execution the other way round (prices after rounding
\* to 2 decimals; a submitted price p is p/100, an entry price e is e/1000).
C10_DirectionSafety ==
  \A c \in Streams :
    LET e == current_price[c]
        long == entry[c].side = "Buy"
    IN  EntrySubmitted(c) =>
          /\ StopLossSubmitted(c) =>
               IF long THEN sl[c].price * 10 <= e ELSE sl[c].price * 10 >= e
          /\ \A k \in 1..Len(tps[c]) :
               IF long THEN tps[c][k].price * 10 >= e
                       ELSE tps[c][k].price * 10 <= e

(* ------------------------------------------- candle store vocabulary *)
Rows(key) == historical_data[key].rows
Stamps(rows) == { rows[i].timestamp : i \in 1..Len(rows) }
StrictlyIncreasing(rows) ==
  \A i \in 1..(Len(rows) - 1) : rows[i].timestamp < rows[i + 1].timestamp

\* C11: whatever candles were merged into a series, by handle_kline_update
\* or by update_historical_data, in whatever order and with whatever
\* repeated timestamps, the stored series has at most 100 candles and its
\* timestamps increase strictly.
C11_BoundedOrderedSeries ==
  \A key \in StoreKeys :
    /\ Len(Rows(key)) <= max_candles
    /\ StrictlyIncreasing(Rows(key))

\* the row of rows that was appended last among those with timestamp t
LastWith(rows, t) ==
  LET Same(row) == row.timestamp = t
      same == SelectSeq(rows, Same)
  IN  same[Len(same)]

\* every stored row is the last written one with its timestamp, the writes
\* being the rows held before followed by the rows of the merged frame
WritesWin(old_rows, frame, new_rows) ==
  \A i \in 1..Len(new_rows) :
    new_rows[i] = LastWith(old_rows \o frame, new_rows[i].timestamp)

\* C12: the candle stored for a timestamp is the one merged last with that
\* timestamp: in every reachable store, a merge by either function leaves
\* for each timestamp present the last candle written with it.
C12_LastWriteWins ==
  \A key \in StoreKeys :
    /\ \A candle \in Candles :
         WritesWin(Rows(key), << candle >>,
                   KlineStore(historical_data, key, candle)[key].rows)
    /\ \A frame \in Frames :
         WritesWin(Rows(key), frame,
                   UpdateStore(historical_data, key, frame)[key].rows)

\* C13: a candle that handle_kline_update merges twice in a row leaves the
\* store as the first merge left it, whatever the store held before.
C13_IdempotentRedelivery ==
  \A key \in StoreKeys, candle \in Candles :
    LET once == KlineStore(historical_data, key, candle)
    IN  KlineStore(once, key, candle) = once

\* a kline message has been merged into a full series and its candle,
\* newer than the rest, is stored
C13_Witness ==
  \E key \in StoreKeys :
    /\ last_msg = [kind |-> "kline", key |-> key]
    /\ Len(Rows(key)) = max_candles
    /\ 102 \in Stamps(Rows(key))

\* C14: a candle merged for a (symbol, timeframe) that has no series yet,
\* the symbol being a trading pair or not, creates the series, which then
\* holds that candle and nothing else.
C14_LazyCreation ==
  \A key \in StoreKeys : ~ historical_data[key].present =>
    \A candle \in Candles :
      /\ KlineStore(historical_data, key, candle)[key] = DataFrame(<< candle >>)
      /\ UpdateStore(historical_data, key, << candle >>)[key] = DataFrame(<< candle >>)

\* C15: a malformed stream message (not a dict, no data or topic, a topic
\* that is not of 3 parts, a payload that is not a list or is empty, a
\* candle lacking a field) is dropped: the handler returns, no series, no
\* reservation, no last trade price and no order changes, and a well-formed
\* message that follows is merged as usual.
C15_MalformedDropped ==
  [][ /\ (merges' = merges + 1 /\ last_msg'.kind \in Malformed) =>
           /\ historical_data' = historical_data
           /\ positions' = positions
           /\ last_trade_prices' = last_trade_prices
           /\ << entry, sl, tps >>' = << entry, sl, tps >>
      /\ (last_msg.kind \in Malformed /\ last_msg'.kind = "kline") =>
           \E candle \in Candles :
             historical_data' = KlineStore(historical_data, last_msg'.key, candle)
    ]_vars

\* a malformed message has been handled after a series was created
C15_Witness ==
  /\ last_msg.kind \in Malformed
  /\ historical_data[<<"BTCUSDT", "D">>].present

(* ------------------------------------------------ signal vocabulary *)
Called == signal_result # NotCalled
Current == df[Len(df)]
Previous == df[Len(df) - 1]
\* the values the rule reads are all there
RuleValuesPresent ==
  /\ Len(df) >= 2
  /\ NaN \notin { Current.ema_short, Current.ema_medium, Current.ema_long,
                  Current.rsi, Current.close, Previous.close, Previous.ema_short }
LongRule ==
  /\ RuleValuesPresent
  /\ Current.ema_short > Current.ema_medium /\ Current.ema_medium > Current.ema_long
  /\ Current.rsi > 30
  /\ Current.close > Current.ema_short
  /\ Previous.close < Previous.ema_short
ShortRule ==
  /\ RuleValuesPresent
  /\ Current.ema_short < Current.ema_medium /\ Current.ema_medium < Current.ema_long
  /\ Current.rsi < 70
  /\ Current.close < Current.ema_short
  /\ Previous.close > Previous.ema_short

\* C16: get_signal returns long exactly when the current candle has
\* ema_short > ema_medium > ema_long, rsi > 30 and close > ema_short and the
\* previous candle has close < ema_short; short exactly in the mirrored case
\* with rsi < 70; nothing otherwise, in particular with fewer than 2 candles
\* or an absent value; the two rules never hold together.
C16_SignalRule ==
  Called =>
    /\ signal_result.signal \in {"long", "short", "none"}
    /\ signal_result.signal = "long" <=> LongRule
    /\ signal_result.signal = "short" <=> ShortRule
    /\ ~ (LongRule /\ ShortRule)

\* get_signal has returned long on a frame at the edge of the rule
C16_Witness ==
  /\ Called
  /\ signal_result.signal = "long"
  /\ Current.rsi = 31

(* --------------------------------------------------- gate vocabulary *)
\* the callback of c leaves the cooldown check of execute_trade
GateStep(c) == pc[c] = "gate" /\ pc'[c] # "gate"
\* a price is recorded for the symbol and the ticker price is less than
\* min_price_change away from it
TooClose(last_price, price, symbol) ==
  /\ last_price # 0
  /\ Abs(price - last_price) * 1000 < MinPriceChange(symbol) * last_price

\* C17: the cooldown check accepts when no trade price is recorded for the
\* symbol and otherwise rejects exactly when the price moved by less than
\* min_price_change of the recorded price (from 100 with 2%: 101 is
\* rejected, 103 accepted); a run it rejects submits no entry order.
C17_CooldownGate ==
  [][ /\ \A c \in Streams : GateStep(c) =>
           LET rejected == TooClose(last_trade_prices[Sym(c)], current_price[c], Sym(c))
           IN  /\ outcome'[c] = "cooldown" <=> rejected
               /\ rejected => ~ EntrySubmitted(c)'
      /\ ~ check_significant_price_change([s \in Symbols |-> 100000], "BTCUSDT", 101000)
      /\ check_significant_price_change([s \in Symbols |-> 100000], "BTCUSDT", 103000)
    ]_vars

\* one run was rejected by the cooldown after another run's entry was
\* accepted and its price recorded
C17_Witness ==
  \E c, d \in Streams :
    /\ outcome[c] = "cooldown"
    /\ ~ EntrySubmitted(c)
    /\ entry[d].res = "ok"
    /\ last_trade_prices[Sym(c)] # 0

\* the callback of c leaves the margin check of execute_trade
MarginStep(c) == pc[c] = "margin" /\ pc'[c] # "margin"
\* the callback of c submits its entry order
EntryStep(c) == ~ EntrySubmitted(c) /\ EntrySubmitted(c)'

\* C18: a run of execute_trade whose margin ratio is above 20, or could not
\* be obtained, submits no entry order; a ratio of at most 20 lets the run
\* go on (250 used of 1000 equity is rejected, 150 of 1000 accepted).
C18_MarginGate ==
  [][ \A c \in Streams :
        /\ MarginStep(c) =>
             /\ pc'[c] = "ticker" <=>
                  (margin_ratio'[c] # NoRatio /\ margin_ratio'[c] <= 20 * 100)
             /\ pc'[c] # "ticker" => (pc'[c] = "idle" /\ ~ EntrySubmitted(c)')
        /\ EntryStep(c) =>
             (margin_ratio[c] # NoRatio /\ margin_ratio[c] <= 20 * 100)
        /\ MarginRatio(250, 1000) > 20 * 100 /\ MarginRatioTooHigh(250, 1000)
        /\ MarginRatio(150, 1000) <= 20 * 100 /\ ~ MarginRatioTooHigh(150, 1000)
    ]_vars

\* one run was stopped by a ratio of 25% and another, at 15%, went on to
\* an accepted entry
C18_Witness ==
  \E c, d \in Streams :
    /\ outcome[c] = "margin_high" /\ margin_ratio[c] = 2500 /\ ~ EntrySubmitted(c)
    /\ entry[d].res = "ok"

\* C20: a reservation is in the ledger only once the margin check and the
\* cooldown check of its run have both accepted: no run holds a reservation
\* while those checks are still ahead of it, or after one of them rejected.
C20_RiskGateBeforeReservation ==
  \A c \in Streams :
    (reserved[c] /\ positions[Sym(c)] # NoPos) =>
      /\ pc[c] \notin {"margin", "ticker", "gate"}
      /\ outcome[c] \notin {"margin_unknown", "margin_high", "cooldown"}

(* ------------------------------------------------------------------ *)
\* the step of should_trade that tests the ledger
CheckStep(c) == pc[c] = "check" /\ pc'[c] # "check"

\* what a callback has sent to the exchange and kept of its run
RunRecord(c) ==
  << signal[c], reserved[c], trade_signal[c], current_price[c], entry[c],
     sl[c], tps[c], tp_base[c] >>

\* C21: a should_trade call for a symbol that already has a ledger entry
\* returns False: the callback ends there, execute_trade is not started, and
\* the existing record, the cooldown prices and every order record stay as
\* they were.
C21_FailedReservationNoEffect ==
  [][ \A c \in Streams :
        (CheckStep(c) /\ positions[Sym(c)] # NoPos) =>
          /\ pc'[c] = "idle" /\ outcome'[c] = "occupied"
          /\ ~ reserved'[c]
          /\ positions' = positions
          /\ last_trade_prices' = last_trade_prices
          /\ \A d \in Streams : RunRecord(d)' = RunRecord(d)
          /\ \A d \in Streams \ {c} : pc'[d] = pc[d] /\ outcome'[d] = outcome[d]
    ]_vars

\* a call was refused on a ledger entry written by the other stream
C21_Witness ==
  \E c \in Streams :
    /\ outcome[c] = "occupied"
    /\ positions[Sym(c)] # NoPos
    /\ positions[Sym(c)].timeframe # Tf(c)

(* ------------------------------------------------------------------ *)
\* C22: last_trade_prices of a symbol changes only in a step in which a
\* market entry of that symbol is accepted, and then holds the price used
\* for that entry; a run that ends at a gate, or whose entry order is
\* rejected or raises, leaves it as it was; a recorded price is never
\* removed.
C22_TradePriceOnlyOnAcceptedEntry ==
  [][ /\ \A s \in Symbols :
           last_trade_prices'[s] # last_trade_prices[s] =>
             \E c \in Streams :
               /\ Sym(c) = s /\ EntryStep(c) /\ entry'[c].res = "ok"
               /\ last_trade_prices'[s] = current_price[c]
      /\ \A c \in Streams :
           /\ (EntryStep(c) /\ entry'[c].res = "ok") =>
                last_trade_prices'[Sym(c)] = current_price[c]
           /\ (GateStep(c) /\ ~ (entry'[c].res = "ok")) =>
                last_trade_prices' = last_trade_prices
      /\ \A s \in Symbols :
           last_trade_prices[s] # 0 => last_trade_prices'[s] # 0
    ]_vars

\* a rejected entry left the price recorded by an accepted one of the other
\* stream, at another price
C22_Witness ==
  \E c, d \in Streams :
    /\ entry[c].res = "rejected"
    /\ entry[d].res = "ok"
    /\ last_trade_prices[Sym(c)] = current_price[d]
    /\ current_price[c] # current_price[d]

(* ------------------------------------------------------------------ *)
\* execute_trade of the callback of c has been called and has not returned
InExecuteTrade(c) == pc[c] \in {"margin", "ticker", "gate", "protect"}

\* C23: while execute_trade runs for one symbol, up to and including the
\* wait before place_tp_orders, a kline message of a stream of another
\* symbol whose callback is not running can be handled: its candle is
\* merged without waiting for the execution to return.
C23_SlowExecutionDoesNotStall ==
  \A c, d \in TwoPairs :
    ( /\ Sym(c) # Sym(d)
      /\ InExecuteTrade(c)
      /\ pc[d] = "idle"
      /\ delivered < MaxMsgs ) => ENABLED Deliver(d)

(* ------------------------------------------------------------------ *)
\* the strategy_params key of a kline interval: "60" is 1h, "30" is 30m
ParamsKey(interval) ==
  CASE interval = "60" -> "1h"
    [] interval = "30" -> "30m"
    [] OTHER -> "15m"

\* the levels of a signal at a price under the parameters of one timeframe
LevelsOn(symbol, interval, price, sig) ==
  LET params == StrategyParams[symbol][ParamsKey(interval)]
      away(f) == IF sig = "long" THEN price * (1000 + f) ELSE price * (1000 - f)
      back(f) == IF sig = "long" THEN price * (1000 - f) ELSE price * (1000 + f)
  IN  [stop_loss |-> back(params.SL),
       take_profit |-> [i \in 1..Legs |-> away(params.TP[i])]]

\* the ledger still holds the record of the signal the callback of c
\* detected on its own timeframe and executed
OwnSignal(c) ==
  /\ positions[Sym(c)] # NoPos
  /\ positions[Sym(c)].timeframe = Tf(c)
  /\ positions[Sym(c)].signal = signal[c]
  /\ trade_signal[c] = signal[c]

\* C24: the stop-loss and take-profit prices a run submits are the levels
\* of the StrategyParams entry of the symbol and of the timeframe on which
\* its signal was detected (0.8% on the 30m stream, 2.3% on the 1h stream),
\* rounded to 1/100.
C24_LadderFollowsSignalTimeframe ==
  \A c \in OnePair :
    (StopLossSubmitted(c) /\ OwnSignal(c)) =>
      LET levels == LevelsOn(Sym(c), Tf(c), current_price[c], signal[c])
      IN  /\ sl[c].price = Round2(levels.stop_loss)
          /\ \A k \in 1..Len(tps[c]) :
               tps[c][k].price = Round2(levels.take_profit[tps[c][k].leg])

(* ------------------------------------------------------------------ *)
\* C25: the entry order of a long signal is a Buy with position index 1,
\* that of a short signal a Sell with position index 2, and the stop-loss
\* and every take-profit call of the run carry the index of its entry.
C25_HedgeIndexMatchesSignal ==
  \A c \in Streams :
    /\ EntrySubmitted(c) =>
         /\ trade_signal[c] \in {"long", "short"}
         /\ trade_signal[c] = "long" => (entry[c].side = "Buy" /\ entry[c].idx = 1)
         /\ trade_signal[c] = "short" => (entry[c].side = "Sell" /\ entry[c].idx = 2)
    /\ StopLossSubmitted(c) => (EntrySubmitted(c) /\ sl[c].idx = entry[c].idx)
    /\ \A k \in 1..Len(tps[c]) :
         EntrySubmitted(c) /\ tps[c][k].idx = entry[c].idx

\* a short entry with its stop-loss and a take-profit leg, all with index 2
C25_Witness ==
  \E c \in Streams :
    /\ trade_signal[c] = "short"
    /\ entry[c].res = "ok" /\ entry[c].side = "Sell" /\ entry[c].idx = 2
    /\ sl[c].res = "ok" /\ sl[c].idx = 2
    /\ Len(tps[c]) >= 1 /\ tps[c][1].idx = 2

(* ------------------------------------------------------------------ *)
\* C26: a callback whose series has fewer than 50 candles ends in
\* should_trade: it returns False, stores no reservation and submits no
\* order; the candles are not even looked at.
C26_WarmUp ==
  \A c \in Streams :
    candles[c] < 50 =>
      /\ pc[c] = "idle"
      /\ outcome[c] \in {"none", "warm_up"}
      /\ signal[c] = "none"
      /\ ~ reserved[c]
      /\ ~ EntrySubmitted(c) /\ ~ StopLossSubmitted(c) /\ tps[c] = << >>

\* a series of 49 candles was refused while the ledger was empty
C26_Witness ==
  \E c \in Streams :
    /\ candles[c] = 49
    /\ outcome[c] = "warm_up"
    /\ positions[Sym(c)] = NoPos

(* ------------------------------------------------------------------ *)
\* C27: two candles with distinct timestamps merged into a series by
\* handle_kline_update leave the same stored series whichever arrives
\* first: from the loaded series of 100 candles, from an empty or absent
\* one, and from every series the store holds while it still takes
\* messages.
C27_ArrivalOrderIndependence ==
  merges < MaxMerges =>
    \A key \in StoreKeys :
      \A a, b \in Candles :
        a.timestamp < b.timestamp =>
          KlineStore(KlineStore(historical_data, key, a), key, b)
            = KlineStore(KlineStore(historical_data, key, b), key, a)

\* the full series took the candles of two timestamps, 101 and 102, and
\* holds them in that order
C27_Witness ==
  \E key \in StoreKeys :
    /\ merges = 2
    /\ last_msg.kind = "kline"
    /\ Len(Rows(key)) = max_candles
    /\ Rows(key)[max_candles].timestamp = 102
    /\ Rows(key)[max_candles - 1].timestamp = 101
    /\ Rows(key)[max_candles - 1].close = 2

(* ------------------------------------------------------------------ *)
\* wallet balances around the two ends of the clamp
ClampBalances == {0, 49, 50, 99, 100, 250, 4999, 5000, 5049, 5050, 1000000}

\* max(1, min(100, floor(balance * 2%)))
Clamped(balance) ==
  LET q == (balance * 2) \div 100
      upper == IF q > 100 THEN 100 ELSE q
  IN  IF upper < 1 THEN 1 ELSE upper

\* C28: the quantity of every entry order is a whole number from 1 to 100:
\* 1 in test mode, otherwise 2% of a wallet balance the exchange reported,
\* rounded down and clamped into 1..100 (0 gives 1, 250 gives 5, 5000 and
\* more give 100); a run whose sizing query failed submits no entry order.
C28_OrderSizeClamped ==
  /\ \A c \in Streams :
       /\ EntrySubmitted(c) =>
            /\ entry[c].qty \in 1..100
            /\ test_mode => entry[c].qty = 1
            /\ ~ test_mode => \E b \in Balances : entry[c].qty = Clamped(b)
       /\ outcome[c] = "size_failed" => (~ test_mode /\ ~ EntrySubmitted(c))
  /\ \A b \in ClampBalances :
       SizeFromBalance(b) = Clamped(b) /\ SizeFromBalance(b) \in 1..100
  /\ SizeFromBalance(49) = 1 /\ SizeFromBalance(250) = 5
  /\ SizeFromBalance(5049) = 100 /\ SizeFromBalance(1000000) = 100

\* outside test mode one accepted entry of quantity 1, clamped up from a
\* balance of 0, and one entry of quantity 5
C28_Witness ==
  /\ ~ test_mode
  /\ \E c, d \in Streams :
       /\ entry[c].res = "ok" /\ entry[c].qty = 1
       /\ entry[d].res # "none" /\ entry[d].qty = 5

(* ------------------------------------------------------------------ *)
\* place_tp_orders of the callback of c ran past its stop-loss call, which
\* was accepted, and has returned
LadderDone(c) == entry[c].res = "ok" /\ sl[c].res = "ok" /\ pc[c] = "idle"

\* floor(0.4 q), floor(0.3 q), floor(0.2 q), floor(0.1 q)
LegShare(q, i) == (q * (5 - i)) \div 10

\* C29: for an entry of quantity q the take-profit legs submitted have the
\* sizes floor(0.4 q), floor(0.3 q), floor(0.2 q), floor(0.1 q), those
\* below 1 left out; an entry of quantity 1 or 2 (1 in test mode) gets its
\* stop-loss and no take-profit leg, and place_tp_orders still reports
\* success.
C29_SmallPositionsNoLadder ==
  \A c \in Streams :
    LadderDone(c) =>
      LET q == entry[c].qty IN
      /\ \A k \in 1..Len(tps[c]) :
           /\ tps[c][k].size = LegShare(q, tps[c][k].leg)
           /\ tps[c][k].size >= 1
      /\ outcome[c] = "protected" =>
           { tps[c][k].leg : k \in 1..Len(tps[c]) }
             = { i \in 1..Legs : LegShare(q, i) >= 1 }
      /\ q \in {1, 2} => (tps[c] = << >> /\ outcome[c] = "protected")

(* ------------------------------------------------------------------ *)
\* C30: an entry order is submitted only when the required margin, 1% of
\* price times quantity, is at most the wallet balance get_balance
\* returned; a run that finds the margin above the balance, or whose
\* get_balance fails, submits no entry order and its callback returns.
C30_BalanceGate ==
  \A c \in Streams :
    /\ EntrySubmitted(c) =>
         current_price[c] * entry[c].qty <= entry[c].wallet_balance * 100 * 1000
    /\ outcome[c] \in {"not_enough_balance", "balance_failed"} =>
         (pc[c] = "idle" /\ ~ EntrySubmitted(c) /\ ~ StopLossSubmitted(c))

\* one run stopped at a balance below its margin and another at a failed
\* get_balance
C30_Witness ==
  \E c, d \in Streams :
    /\ outcome[c] = "not_enough_balance" /\ current_price[c] > 0
    /\ outcome[d] = "balance_failed"

====
